---------------------------- MODULE Spec2Model ----------------------------
(***************************************************************************)
(* A model of dotnet5-redist (src/src/main.rs, src/src/http.rs): the       *)
(* command resolves a possibly partial .NET version against the remote     *)
(* release index, probes the local installation, and downloads and         *)
(* launches the installer.                                                 *)
(*                                                                         *)
(* Text is a sequence of one-character strings (a constant piece of a URL  *)
(* is one token of such a sequence), so that formatting and parsing are    *)
(* computed, not assumed.                                                  *)
(***************************************************************************)
EXTENDS Integers, Sequences, FiniteSets, TLC

(***************************************************************************)
(* Bounds of the model.                                                    *)
(***************************************************************************)
\* find_newest_minor probes minors 0 .. MaxMinor at most (the loop of the code
\* has no upper limit).
MaxMinor == 3
\* The probed directory holds at most MaxEntries entries.
MaxEntries == 2

(***************************************************************************)
(* Option and Result values.                                               *)
(***************************************************************************)
None == <<>>

Some(x) == <<x>>

IsSome(o) == o # <<>>

Unwrap(o) == o[1]

Ok(v) == [ok |-> TRUE, val |-> v]

Err(e) == [ok |-> FALSE, err |-> e]

\* The unit value of Ok(()).
Unit == "()"

(***************************************************************************)
(* Text.                                                                   *)
(***************************************************************************)
Digits == <<"0", "1", "2", "3", "4", "5", "6", "7", "8", "9">>

IsDigit(c) == \E i \in 1..Len(Digits) : Digits[i] = c

DigitVal(c) == (CHOOSE i \in 1..Len(Digits) : Digits[i] = c) - 1

\* format!("{}", n) of an unsigned integer: its decimal digits.
RECURSIVE NatToStr(_)
NatToStr(n) ==
    IF n < 10 THEN <<Digits[n + 1]>>
    ELSE NatToStr(n \div 10) \o <<Digits[(n % 10) + 1]>>

RECURSIVE DigitsToNat(_)
DigitsToNat(s) ==
    IF s = <<>> THEN 0
    ELSE 10 * DigitsToNat(SubSeq(s, 1, Len(s) - 1)) + DigitVal(s[Len(s)])

\* A numeric component of a semantic version: digits only, no leading zero.
\* None when the text is not one.
ParseNumeric(s) ==
    IF /\ s # <<>>
       /\ \A i \in 1..Len(s) : IsDigit(s[i])
       /\ (Len(s) > 1 => s[1] # "0")
    THEN Some(DigitsToNat(s))
    ELSE None

\* s.split(sep): the pieces of s between the separators (always at least one).
RECURSIVE Split(_, _)
Split(s, sep) ==
    IF \A i \in 1..Len(s) : s[i] # sep THEN <<s>>
    ELSE LET k == CHOOSE i \in 1..Len(s) :
                      /\ s[i] = sep
                      /\ \A j \in 1..(i - 1) : s[j] # sep
         IN <<SubSeq(s, 1, k - 1)>> \o Split(SubSeq(s, k + 1, Len(s)), sep)

\* str::lines(): the pieces between line feeds, a final empty piece dropped and
\* a carriage return at the end of a line removed.
Lines(s) ==
    LET pieces == Split(s, "\n")
        kept == IF pieces[Len(pieces)] = <<>>
                THEN SubSeq(pieces, 1, Len(pieces) - 1)
                ELSE pieces
        strip(l) == IF l # <<>> /\ l[Len(l)] = "\r"
                    THEN SubSeq(l, 1, Len(l) - 1) ELSE l
    IN [i \in 1..Len(kept) |-> strip(kept[i])]

IsWhitespace(c) == c \in {" ", "\n", "\r", "\t"}

\* str::trim(): leading and trailing whitespace removed.
RECURSIVE Trim(_)
Trim(s) ==
    IF s = <<>> THEN s
    ELSE IF IsWhitespace(s[1]) THEN Trim(Tail(s))
    ELSE IF IsWhitespace(s[Len(s)]) THEN Trim(SubSeq(s, 1, Len(s) - 1))
    ELSE s

(***************************************************************************)
(* Versions: the request of the command line (DotnetVersion) and the       *)
(* semver crate's Version and VersionReq.                                  *)
(***************************************************************************)
\* struct DotnetVersion: minor and patch are options.
DotnetVersion(major, minor, patch) ==
    [major |-> major, minor |-> minor, patch |-> patch]

\* impl Display for DotnetVersion.
DotnetVersion_to_string(v) ==
    NatToStr(v.major)
    \o (IF IsSome(v.minor)
        THEN <<".">> \o NatToStr(Unwrap(v.minor))
             \o (IF IsSome(v.patch)
                 THEN <<".">> \o NatToStr(Unwrap(v.patch))
                 ELSE <<>>)
        ELSE <<>>)

\* semver::Version::new(major, minor, patch): no pre-release.
Version_new(major, minor, patch) ==
    [major |-> major, minor |-> minor, patch |-> patch, pre |-> <<>>]

\* impl Display for semver::Version.
Version_to_string(v) ==
    NatToStr(v.major) \o <<".">> \o NatToStr(v.minor) \o <<".">> \o NatToStr(v.patch)
    \o (IF v.pre # <<>> THEN <<"-">> \o v.pre ELSE <<>>)

\* A pre-release tag: identifiers of letters, digits and hyphens, none empty,
\* separated by dots.
IsPrerelease(s) ==
    /\ s # <<>>
    /\ \A i \in 1..Len(s) :
          \/ IsDigit(s[i])
          \/ s[i] \in {"r", "c", "p", "-", "."}
    /\ \A i \in 1..Len(Split(s, ".")) : Split(s, ".")[i] # <<>>

\* semver::Version::parse (also Version::from_str): MAJOR.MINOR.PATCH, each a
\* numeric component, then an optional "-" and a pre-release tag.  Build
\* metadata ("+...") is not modelled: no text of the model holds a "+".
Version_parse(s) ==
    LET hy == {i \in 1..Len(s) : s[i] = "-"}
        cut == IF hy = {} THEN Len(s) + 1
               ELSE CHOOSE i \in hy : \A j \in hy : i <= j
        core == Split(SubSeq(s, 1, cut - 1), ".")
        pre == SubSeq(s, cut + 1, Len(s))
    IN IF /\ Len(core) = 3
          /\ \A i \in 1..3 : IsSome(ParseNumeric(core[i]))
          /\ (hy # {} => IsPrerelease(pre))
       THEN Ok([major |-> Unwrap(ParseNumeric(core[1])),
                minor |-> Unwrap(ParseNumeric(core[2])),
                patch |-> Unwrap(ParseNumeric(core[3])),
                pre |-> pre])
       ELSE Err("semver: unexpected character or end of input")

\* semver::VersionReq::parse of a text without operator: one comparator with the
\* default operator, caret, and one to three numeric components.  (Operators,
\* wildcards and comma lists do not occur: the text is a DotnetVersion's.)
VersionReq_parse(s) ==
    LET parts == Split(s, ".")
    IN IF /\ Len(parts) \in 1..3
          /\ \A i \in 1..Len(parts) : IsSome(ParseNumeric(parts[i]))
       THEN Ok([op |-> "Caret",
                major |-> Unwrap(ParseNumeric(parts[1])),
                minor |-> IF Len(parts) >= 2 THEN ParseNumeric(parts[2]) ELSE None,
                patch |-> IF Len(parts) >= 3 THEN ParseNumeric(parts[3]) ELSE None])
       ELSE Err("semver: unexpected character in version requirement")

\* The caret comparator of the semver crate: ^I.J.K admits what leaves the
\* leftmost non-zero component unchanged and is not older.
MatchesCaret(cmp, ver) ==
    IF ver.major # cmp.major THEN FALSE
    ELSE IF ~IsSome(cmp.minor) THEN TRUE
    ELSE LET minor == Unwrap(cmp.minor) IN
         IF ~IsSome(cmp.patch)
         THEN (IF cmp.major > 0 THEN ver.minor >= minor ELSE ver.minor = minor)
         ELSE LET patch == Unwrap(cmp.patch) IN
              IF cmp.major > 0
              THEN (IF ver.minor # minor THEN ver.minor > minor
                    ELSE ver.patch >= patch)
              ELSE IF minor > 0
              THEN (IF ver.minor # minor THEN FALSE
                    ELSE ver.patch >= patch)
              ELSE ver.minor = minor /\ ver.patch = patch

\* VersionReq::matches: the comparator admits the version, and a pre-release
\* version is admitted only by a comparator that names a pre-release, which a
\* DotnetVersion never does.
VersionReq_matches(req, ver) ==
    /\ MatchesCaret(req, ver)
    /\ ver.pre = <<>>

(***************************************************************************)
(* The command line, the environment and the remote index.                 *)
(***************************************************************************)
Runtimes == {"Dotnet", "AspCore", "WindowsDesktop"}

Architectures == {"X86", "X64"}

\* The requests of the model, each as DotnetVersion::from_str builds it: a
\* patch only with a minor.
Requests ==
    { DotnetVersion(5, None, None),
      DotnetVersion(5, Some(1), None),
      DotnetVersion(5, Some(1), Some(3)),
      DotnetVersion(0, Some(1), None) }

BASE_URL == "https://dotnetcli.blob.core.windows.net/dotnet"

CDN_URL == "https://dotnetcli.azureedge.net/dotnet"

\* The statuses a response carries: 200, 404, and one more that is neither.
StatusOk == "Ok"

StatusNotFound == "NotFound"

Statuses == {StatusOk, StatusNotFound, "InternalServerError"}

\* A slip in is_64bit_os: every system counts as 64-bit.
is_64bit_os_Always(e) == TRUE

\* fn is_64bit_os.
is_64bit_os(e) == e.w6432 \/ e.x86_64

\* fn is_syswow64.
is_syswow64(e) == e.w6432

\* The path is_vcruntime_installed looks at.
VcRuntimePath(arch, e) ==
    IF arch = "X64"
    THEN (IF is_syswow64(e) THEN "C:\\Windows\\SysNative\\vcruntime140.dll"
          ELSE "C:\\Windows\\System32\\vcruntime140.dll")
    ELSE (IF is_syswow64(e) THEN "C:\\Windows\\System32\\vcruntime140.dll"
          ELSE "C:\\Windows\\SysWOW64\\vcruntime140.dll")

\* The URL of the prerequisite's installer in main.
VcRedistUrl(arch) ==
    IF arch = "X86"
    THEN <<"https://download.visualstudio.microsoft.com/download/pr/8ecb9800-52fd-432d-83ee-d6e037e96cc2/50A3E92ADE4C2D8F310A2812D46322459104039B9DEADBD7FDD483B5C697C0C8/VC_redist.x86.exe">>
    ELSE <<"https://download.visualstudio.microsoft.com/download/pr/89a3b9df-4a09-492e-8474-8f92c115c51d/B1A32C71A6B7D5978904FB223763263EA5A7EB23B2C44A0D60E90D234AD99178/VC_redist.x64.exe">>

\* fn get_root_install; "unreachable" stands for the panic of its last arm.
get_root_install(arch, e) ==
    IF (arch = "X64" /\ is_64bit_os(e)) \/ (arch = "X86" /\ ~is_64bit_os(e))
    THEN "C:\\Program Files\\dotnet"
    ELSE IF arch = "X86" /\ is_64bit_os(e)
    THEN "C:\\Program Files (x86)\\dotnet"
    ELSE "unreachable"

\* The runtime's directory under the install root, in is_installed.
RuntimePath(runtime) ==
    CASE runtime = "Dotnet" -> "shared\\Microsoft.NETCore.App"
      [] runtime = "AspCore" -> "shared\\Microsoft.AspNetCore.App"
      [] runtime = "WindowsDesktop" -> "shared\\Microsoft.WindowsDesktop.App"

\* fn download_url.
download_url(arch, runtime, version, product_version) ==
    LET a == IF arch = "X86" THEN "x86" ELSE "x64"
        dir == IF runtime = "AspCore" THEN "/aspnetcore/Runtime/" ELSE "/Runtime/"
        file == CASE runtime = "Dotnet" -> "/dotnet-runtime-"
                  [] runtime = "AspCore" -> "/aspnetcore-runtime-"
                  [] runtime = "WindowsDesktop" -> "/windowsdesktop-runtime-"
    IN <<BASE_URL, dir>> \o Version_to_string(version) \o <<file>>
       \o product_version \o <<"-win-", a, ".exe">>

\* The URL find_product_version asks for.
ProductVersionUrl(runtime, version) ==
    IF runtime \in {"Dotnet", "WindowsDesktop"}
    THEN <<CDN_URL, "/Runtime/">> \o Version_to_string(version)
         \o <<"/productVersion.txt">>
    ELSE <<BASE_URL, "/aspnetcore/Runtime">> \o Version_to_string(version)

\* The url of find_best_version, the prefix of the index of a runtime.
IndexUrl(runtime) ==
    IF runtime \in {"Dotnet", "WindowsDesktop"}
    THEN <<BASE_URL, "/Runtime">>
    ELSE <<BASE_URL, "/aspnetcore/Runtime">>

\* A slip in the format string: the candidate's minor is left out.
LatestVersionUrl_NoMinor(url, major, minor) ==
    url \o <<"/">> \o NatToStr(major) \o <<".">> \o NatToStr(major)
    \o <<"/latest.version">>

\* format!("{}/{}.{}/latest.version", url, major, minor).
LatestVersionUrl(url, major, minor) ==
    url \o <<"/">> \o NatToStr(major) \o <<".">> \o NatToStr(minor)
    \o <<"/latest.version">>

(***************************************************************************)
(* What the environment may answer.                                        *)
(***************************************************************************)
\* Names found in the runtime's directory: versions, a pre-release, and a name
\* that is no version.
DirNames ==
    { <<"5", ".", "0", ".", "9">>,
      <<"5", ".", "1", ".", "4">>,
      <<"5", ".", "2", ".", "0">>,
      <<"5", ".", "1", ".", "3", "-", "r", "c">>,
      <<"h", "o", "s", "t">> }

DirEntries == [name : DirNames, is_dir : BOOLEAN]

\* The listings read_dir may yield: entries of distinct names, in any order.
Listings ==
    { l \in UNION { [1..n -> DirEntries] : n \in 0..MaxEntries } :
        \A i, j \in 1..Len(l) : i # j => l[i].name # l[j].name }

\* read_dir fails when the runtime's directory is missing.
PathNotFound == Err("io: the system cannot find the path specified")

ReadDirOutcomes == {PathNotFound} \cup {Ok(l) : l \in Listings}

\* The texts a latest.version resource may hold.
MarkerBodies ==
    { <<"5", ".", "1", ".", "7">>,
      <<"5", ".", "1", ".", "7", "\n">>,
      <<"5", ".", "1", ".", "7", "\n", "\n">>,
      <<"5", ".", "0", ".", "0", "\n", "5", ".", "1", ".", "7">>,
      <<"6", ".", "0", ".", "0">>,
      <<"<", "E", "r", "r", "o", "r", "/", ">">>,
      <<>> }

\* The texts a product version resource may hold.
ProductBodies ==
    { <<"5", ".", "1", ".", "7">>,
      <<" ", "5", ".", "1", ".", "7", "\r", "\n">>,
      <<>> }

\* A response whose body is read as text: the status, and the text or, for a
\* body that is no UTF-8 text, None.
TextResponses(bodies) ==
    [status : Statuses, body : {None} \cup {Some(b) : b \in bodies}]

\* http::get: a transport failure, or a response.
TransportError == Err("transport: cannot connect")

\* The exit codes of a launched installer.
ExitCodes == {0, 1}

(***************************************************************************)
(* The functions of main.rs.                                               *)
(***************************************************************************)
\* The loop of is_installed over the entries of the directory.
RECURSIVE ScanEntries(_, _)
ScanEntries(version_req, entries) ==
    IF entries = <<>> THEN Ok(FALSE)
    ELSE LET entry == Head(entries)
             version == Version_parse(entry.name)
         IN IF ~version.ok THEN Err(version.err)
            ELSE IF entry.is_dir /\ VersionReq_matches(version_req, version.val)
            THEN Ok(TRUE)
            ELSE ScanEntries(version_req, Tail(entries))

\* A slip in is_installed: the directory is read without the test that the
\* install root exists.
is_installed_NoRootTest(dotnet_version, root_exists, read_dir) ==
    LET version_req == VersionReq_parse(DotnetVersion_to_string(dotnet_version))
    IN IF ~version_req.ok THEN Err(version_req.err)
       ELSE IF ~read_dir.ok THEN Err(read_dir.err)
       ELSE ScanEntries(version_req.val, read_dir.val)

\* is_installed, given what the file system answers: whether the install root
\* exists and what read_dir of the runtime's directory yields.
is_installed(dotnet_version, root_exists, read_dir) ==
    LET version_req == VersionReq_parse(DotnetVersion_to_string(dotnet_version))
    IN IF ~version_req.ok THEN Err(version_req.err)
       ELSE IF ~root_exists THEN Ok(FALSE)
       ELSE IF ~read_dir.ok THEN Err(read_dir.err)
       ELSE ScanEntries(version_req.val, read_dir.val)

\* A slip in main's test: the download is made whatever is_installed returned.
MainProceeds_Always(installed_val) == TRUE

\* A slip in main: x64 is never refused.
ArchRejected_Never(arch, e) == FALSE

\* main's first test: x64 asked for on a system that is not 64-bit.
ArchRejected(arch, e) == arch = "X64" /\ ~is_64bit_os(e)

\* A slip in main: the negation of is_vcruntime_installed is lost.
NeedsVcRedist_Inverted(exists) == exists

\* main downloads the prerequisite when is_vcruntime_installed returned false.
NeedsVcRedist(exists) == ~exists

\* main proceeds to the download unless is_installed returned true.
MainProceeds(installed_val) == ~installed_val

\* A slip in find_best_version: the test for a full request never succeeds.
IsFullySpecified_Never(version) == FALSE

\* find_best_version's first test: major, minor and patch all given.
IsFullySpecified(version) == IsSome(version.minor) /\ IsSome(version.patch)

\* A slip in find_newest_minor: every status but 200 ends the scan.
StopsScan_AnyFailure(status) == status # StatusOk

\* find_newest_minor's test of a response: only 404 ends the scan.
StopsScan(status) == status = StatusNotFound

\* A slip in find_newest_minor: the candidate answered 404 is returned itself.
NewestMinorOnNotFound_OffByOne(minor) ==
    IF minor > 0 THEN Ok(minor)
    ELSE Err("No available versions found")

\* find_newest_minor at a candidate answered 404.
NewestMinorOnNotFound(minor) ==
    IF minor > 0 THEN Ok(minor - 1)
    ELSE Err("No available versions found")

\* find_best_version's reading of the marker: the last line, parsed.
MarkerVersion(version_text) ==
    LET ls == Lines(version_text)
    IN IF ls # <<>> THEN Version_parse(ls[Len(ls)])
       ELSE Err("version file did not contain expected version text")

\* find_best_version after http::get answered: the status is not looked at.
BestVersionOfResponse(response) ==
    IF ~IsSome(response.body) THEN Err("body is not valid UTF-8")
    ELSE MarkerVersion(Unwrap(response.body))

\* A slip in find_product_version: a status other than 200 is an error.
ProductVersionOfResponse_NoFallback(response, version) ==
    IF response.status = StatusOk
    THEN (IF ~IsSome(response.body) THEN Err("body is not valid UTF-8")
          ELSE Ok(Trim(Unwrap(response.body))))
    ELSE Err("could not read product version")

\* find_product_version after http::get answered.
ProductVersionOfResponse(response, version) ==
    IF response.status = StatusOk
    THEN (IF ~IsSome(response.body) THEN Err("body is not valid UTF-8")
          ELSE Ok(Trim(Unwrap(response.body))))
    ELSE Ok(Version_to_string(version))

\* A slip in download_install: an installer that exits with a code other than
\* 0 is an error.
LaunchResult_ChecksExit(code) ==
    IF code = 0 THEN Ok(Unit) ELSE Err("installer failed")

\* download_install after the installer was waited for: status()? is dropped,
\* Ok(()) is returned.
LaunchResult(code) == Ok(Unit)

\* A slip in download_install: a status other than 200 is passed over.
DownloadStatusError_Ignored(status) == Ok(Unit)

\* download_install's answer to a status other than 200.
DownloadStatusError(status) == Err("could not download file")

\* A slip in download_install: the guard is given up (TempDir::into_path), and
\* the directory stays.
TempDir_drop_Leaks(exists) == exists

\* The TempDir guard of download_install leaves scope: the directory is removed.
TempDir_drop(exists) == FALSE

(***************************************************************************)
(* The state of a run.                                                     *)
(***************************************************************************)
VARIABLES
    arg,              \* the parsed command line: version, runtime, arch
    env,              \* PROCESSOR_ARCHITEW6432 is set; the build targets x86_64
    vcruntime,        \* what is_vcruntime_installed returned, None before
    pc,               \* where main stands
    result,           \* main's result, None while it runs
    fetched,          \* every http::get so far: the caller and the URL
    fsReads,          \* every path looked at so far
    launched,         \* every installer process launched: its URL, its exit code
    tmpDir,           \* the temporary directory of download_install exists
    dl,               \* the running or last call of download_install
    probe,            \* is_installed's view, between its return and main's test
    installed,        \* what is_installed returned
    fnm,              \* the call of find_newest_minor
    fbv,              \* the call of find_best_version
    version,          \* main's version
    fpv,              \* the call of find_product_version
    product_version   \* main's product_version

vars == <<arg, env, vcruntime, pc, result, fetched, fsReads, launched, tmpDir, dl, probe,
          installed, fnm, fbv, version, fpv, product_version>>

Init ==
    /\ arg \in [version : Requests, runtime : Runtimes, arch : Architectures]
    /\ env \in [w6432 : BOOLEAN, x86_64 : BOOLEAN]
    /\ vcruntime = None
    /\ pc = "start"
    /\ result = None
    /\ fetched = <<>>
    /\ fsReads = <<>>
    /\ launched = <<>>
    /\ tmpDir = FALSE
    /\ dl = None
    /\ probe = None
    /\ installed = None
    /\ fnm = None
    /\ fbv = None
    /\ version = None
    /\ fpv = None
    /\ product_version = None

\* http::get(url) called by a function: the request is on record.
Get(by, url) == fetched' = Append(fetched, [by |-> by, url |-> url])

\* main returns r.
Return(r) == result' = Some(r) /\ pc' = "done"

\* download_install(url) is entered.
CallDownload(caller, url) ==
    /\ dl' = Some([caller |-> caller, url |-> url, status |-> None,
                   exit |-> None, res |-> None])
    /\ pc' = "dl_begin"

\* download_install returns r by the exit named: its locals, the TempDir guard
\* among them, leave scope.
ReturnDownload(exit, status, r, dir) ==
    /\ dl' = Some([Unwrap(dl) EXCEPT !.exit = Some(exit), !.status = status,
                                     !.res = Some(r)])
    /\ tmpDir' = dir
    /\ pc' = "dl_ret"

(***************************************************************************)
(* main.                                                                   *)
(***************************************************************************)
\* main: x64 on a 32-bit system is refused.
MainCheckArch ==
    /\ pc = "start"
    /\ IF ArchRejected(arg.arch, env)
       THEN Return(Err("Cannot install 64-bit dotnet on 32-bit windows"))
       ELSE pc' = "vcruntime" /\ UNCHANGED result
    /\ UNCHANGED <<arg, env, vcruntime, fetched, fsReads, launched, tmpDir, dl, probe,
                   installed, fnm, fbv, version, fpv, product_version>>

\* main: is_vcruntime_installed, and the prerequisite's download if it is not.
MainCheckVcRuntime ==
    /\ pc = "vcruntime"
    /\ fsReads' = Append(fsReads, <<VcRuntimePath(arg.arch, env)>>)
    /\ \E exists \in BOOLEAN :
          /\ vcruntime' = Some(exists)
          /\ IF NeedsVcRedist(exists)
             THEN CallDownload("vcruntime", VcRedistUrl(arg.arch))
             ELSE pc' = "probe" /\ UNCHANGED dl
    /\ UNCHANGED <<arg, env, result, fetched, launched, tmpDir, probe,
                   installed, fnm, fbv, version, fpv, product_version>>

\* download_install: tempdir() and File::create.
DownloadCreate ==
    /\ pc = "dl_begin"
    /\ \/ ReturnDownload("tempdir", None, Err("io: tempdir"), tmpDir)
       \/ ReturnDownload("create", None, Err("io: create"), TempDir_drop(TRUE))
       \/ tmpDir' = TRUE /\ pc' = "dl_get" /\ UNCHANGED dl
    /\ UNCHANGED <<arg, env, vcruntime, result, fetched, fsReads, launched, probe,
                   installed, fnm, fbv, version, fpv, product_version>>

\* download_install: http::get and the test of the status.
DownloadGet ==
    /\ pc = "dl_get"
    /\ Get("download_install", Unwrap(dl).url)
    /\ \/ ReturnDownload("transport", None, TransportError, TempDir_drop(tmpDir))
       \/ \E status \in Statuses :
             IF status = StatusOk
             THEN /\ dl' = Some([Unwrap(dl) EXCEPT !.status = Some(status)])
                  /\ pc' = "dl_copy"
                  /\ UNCHANGED tmpDir
             ELSE ReturnDownload("status", Some(status),
                                 DownloadStatusError(status), TempDir_drop(tmpDir))
    /\ UNCHANGED <<arg, env, vcruntime, result, fsReads, launched, probe, installed, fnm,
                   fbv, version, fpv, product_version>>

\* download_install: the body is copied and flushed, the installer is launched
\* and waited for.
DownloadCopyLaunch ==
    /\ pc = "dl_copy"
    /\ \/ /\ \E e \in {"io: copy", "io: flush", "io: launch"} :
                ReturnDownload(e, Unwrap(dl).status, Err(e),
                               TempDir_drop(tmpDir))
          /\ UNCHANGED launched
       \/ \E code \in ExitCodes :
             /\ launched' = Append(launched, [url |-> Unwrap(dl).url, exit |-> code])
             /\ ReturnDownload("launched", Unwrap(dl).status, LaunchResult(code),
                               TempDir_drop(tmpDir))
    /\ UNCHANGED <<arg, env, vcruntime, result, fetched, fsReads, probe, installed, fnm,
                   fbv, version, fpv, product_version>>

\* main after download_install(...).await?.
MainAfterDownload ==
    /\ pc = "dl_ret"
    /\ LET d == Unwrap(dl)
           r == Unwrap(d.res)
       IN IF ~r.ok THEN Return(r) /\ UNCHANGED dl
          ELSE IF d.caller = "vcruntime"
          THEN pc' = "probe" /\ dl' = None /\ UNCHANGED result
          ELSE Return(Ok(Unit)) /\ UNCHANGED dl
    /\ UNCHANGED <<arg, env, vcruntime, fetched, fsReads, launched, tmpDir, probe,
                   installed, fnm, fbv, version, fpv, product_version>>

\* is_installed.
IsInstalled ==
    /\ pc = "probe"
    /\ LET root_path == get_root_install(arg.arch, env)
       IN IF root_path = "unreachable"
          THEN /\ pc' = "panic"
               /\ UNCHANGED <<fsReads, probe, installed>>
          ELSE \E root_exists \in BOOLEAN :
               \E read_dir \in IF root_exists THEN ReadDirOutcomes
                               ELSE {PathNotFound} :
                  /\ fsReads' = fsReads \o <<<<root_path>>>>
                        \o (IF root_exists
                            THEN <<<<root_path, RuntimePath(arg.runtime)>>>>
                            ELSE <<>>)
                  /\ probe' = Some([root_exists |-> root_exists,
                                    read_dir |-> read_dir])
                  /\ installed' =
                        Some(is_installed(arg.version, root_exists, read_dir))
                  /\ pc' = "probe_ret"
    /\ UNCHANGED <<arg, env, vcruntime, result, fetched, launched, tmpDir, dl, fnm, fbv,
                   version, fpv, product_version>>

\* main: if !is_installed(...).await? { ... } Ok(()).
MainAfterProbe ==
    /\ pc = "probe_ret"
    /\ LET r == Unwrap(installed)
       IN IF ~r.ok THEN Return(r)
          ELSE IF MainProceeds(r.val) THEN pc' = "fbv" /\ UNCHANGED result
          ELSE Return(Ok(Unit))
    /\ probe' = None
    /\ UNCHANGED <<arg, env, vcruntime, fetched, fsReads, launched, tmpDir, dl, installed,
                   fnm, fbv, version, fpv, product_version>>

\* find_best_version, up to its first await.
FindBestVersionBegin ==
    /\ pc = "fbv"
    /\ LET v == arg.version
           call == [minor |-> v.minor, response |-> None, res |-> None]
       IN IF IsFullySpecified(v)
          THEN /\ fbv' = Some([call EXCEPT !.res =
                    Some(Ok(Version_new(v.major, Unwrap(v.minor), Unwrap(v.patch))))])
               /\ pc' = "fbv_ret"
               /\ UNCHANGED fnm
          ELSE IF IsSome(v.minor)
          THEN fbv' = Some(call) /\ pc' = "fbv_latest" /\ UNCHANGED fnm
          ELSE /\ fbv' = Some(call)
               /\ fnm' = Some([minor |-> 0, seen |-> <<>>, res |-> None])
               /\ pc' = "fnm"
    /\ UNCHANGED <<arg, env, vcruntime, result, fetched, fsReads, launched, tmpDir, dl,
                   probe, installed, version, fpv, product_version>>

\* find_newest_minor: one round of its loop.  seen holds the status of every
\* candidate answered so far.
FindNewestMinorFetch ==
    /\ pc = "fnm"
    /\ Unwrap(fnm).minor <= MaxMinor
    /\ LET f == Unwrap(fnm)
       IN /\ Get("find_newest_minor",
                 LatestVersionUrl(IndexUrl(arg.runtime), arg.version.major, f.minor))
          /\ \/ /\ fnm' = Some([f EXCEPT !.res = Some(TransportError)])
                /\ pc' = "fnm_ret"
             \/ \E status \in Statuses :
                   LET seen == Append(f.seen, status)
                   IN IF StopsScan(status)
                      THEN /\ fnm' = Some([f EXCEPT !.seen = seen,
                                  !.res = Some(NewestMinorOnNotFound(f.minor))])
                           /\ pc' = "fnm_ret"
                      ELSE /\ fnm' = Some([f EXCEPT !.seen = seen,
                                                    !.minor = f.minor + 1])
                           /\ pc' = "fnm"
    /\ UNCHANGED <<arg, env, vcruntime, result, fsReads, launched, tmpDir, dl, probe,
                   installed, fbv, version, fpv, product_version>>

\* find_best_version after find_newest_minor(...).await?.
FindBestVersionMinor ==
    /\ pc = "fnm_ret"
    /\ LET r == Unwrap(Unwrap(fnm).res)
       IN IF ~r.ok
          THEN /\ fbv' = Some([Unwrap(fbv) EXCEPT !.res = Some(r)])
               /\ pc' = "fbv_ret"
          ELSE /\ fbv' = Some([Unwrap(fbv) EXCEPT !.minor = Some(r.val)])
               /\ pc' = "fbv_latest"
    /\ fnm' = None
    /\ UNCHANGED <<arg, env, vcruntime, result, fetched, fsReads, launched, tmpDir, dl,
                   probe, installed, version, fpv, product_version>>

\* find_best_version: the latest.version of major.minor is fetched and read.
FindBestVersionLatest ==
    /\ pc = "fbv_latest"
    /\ LET f == Unwrap(fbv)
       IN /\ Get("find_best_version",
                 LatestVersionUrl(IndexUrl(arg.runtime), arg.version.major,
                                  Unwrap(f.minor)))
          /\ \/ fbv' = Some([f EXCEPT !.res = Some(TransportError)])
             \/ \E response \in TextResponses(MarkerBodies) :
                   fbv' = Some([f EXCEPT !.response = Some(response),
                                  !.res = Some(BestVersionOfResponse(response))])
    /\ pc' = "fbv_ret"
    /\ UNCHANGED <<arg, env, vcruntime, result, fsReads, launched, tmpDir, dl, probe,
                   installed, fnm, version, fpv, product_version>>

\* main after find_best_version(...).await?.
MainAfterVersion ==
    /\ pc = "fbv_ret"
    /\ LET r == Unwrap(Unwrap(fbv).res)
       IN IF ~r.ok THEN Return(r) /\ UNCHANGED version
          ELSE version' = Some(r.val) /\ pc' = "fpv" /\ UNCHANGED result
    /\ fbv' = None
    /\ UNCHANGED <<arg, env, vcruntime, fetched, fsReads, launched, tmpDir, dl, probe,
                   installed, fnm, fpv, product_version>>

\* find_product_version.
FindProductVersion ==
    /\ pc = "fpv"
    /\ Get("find_product_version", ProductVersionUrl(arg.runtime, Unwrap(version)))
    /\ \/ fpv' = Some([response |-> None, res |-> TransportError])
       \/ \E response \in TextResponses(ProductBodies) :
             fpv' = Some([response |-> Some(response),
                          res |-> ProductVersionOfResponse(response, Unwrap(version))])
    /\ pc' = "fpv_ret"
    /\ UNCHANGED <<arg, env, vcruntime, result, fsReads, launched, tmpDir, dl, probe,
                   installed, fnm, fbv, version, product_version>>

\* main after find_product_version(...).await?: download_url and the download.
MainAfterProductVersion ==
    /\ pc = "fpv_ret"
    /\ LET r == Unwrap(fpv).res
       IN IF ~r.ok THEN Return(r) /\ UNCHANGED <<product_version, dl>>
          ELSE /\ product_version' = Some(r.val)
               /\ CallDownload("dotnet",
                     download_url(arg.arch, arg.runtime, Unwrap(version), r.val))
               /\ UNCHANGED result
    /\ fpv' = None
    /\ UNCHANGED <<arg, env, vcruntime, fetched, fsReads, launched, tmpDir, probe,
                   installed, fnm, fbv, version>>

Next ==
    \/ MainCheckArch
    \/ MainCheckVcRuntime
    \/ DownloadCreate
    \/ DownloadGet
    \/ DownloadCopyLaunch
    \/ MainAfterDownload
    \/ IsInstalled
    \/ MainAfterProbe
    \/ FindBestVersionBegin
    \/ FindNewestMinorFetch
    \/ FindBestVersionMinor
    \/ FindBestVersionLatest
    \/ MainAfterVersion
    \/ FindProductVersion
    \/ MainAfterProductVersion

Spec == Init /\ [][Next]_vars

(***************************************************************************)
(* Properties.                                                             *)
(***************************************************************************)
\* The listing is_installed has read, when it has read one.
ProbeListing ==
    IF /\ IsSome(probe)
       /\ Unwrap(probe).root_exists
       /\ Unwrap(probe).read_dir.ok
    THEN Unwrap(probe).read_dir.val
    ELSE <<>>

ProbeReturnedTrue == Unwrap(installed).ok /\ Unwrap(installed).val

\* A version satisfies a request read as a range in which every component the
\* request gives must match exactly.
SatisfiesExactly(request, v) ==
    /\ v.pre = <<>>
    /\ v.major = request.major
    /\ (IsSome(request.minor) => v.minor = Unwrap(request.minor))
    /\ (IsSome(request.patch) => v.patch = Unwrap(request.patch))

\* C1: when is_installed returns true or false, it returns true exactly when
\* some subdirectory of the runtime's directory has a name that parses as a
\* version which agrees with the request in every component the request gives
\* (5 admits 5.x.y only, 5.1 admits 5.1.x only).
C1_ProbeTrueIffExactMatch ==
    ( pc = "probe_ret" /\ Unwrap(installed).ok ) =>
        ( Unwrap(installed).val
          <=> \E i \in 1..Len(ProbeListing) :
                 /\ ProbeListing[i].is_dir
                 /\ Version_parse(ProbeListing[i].name).ok
                 /\ SatisfiesExactly(arg.version,
                                     Version_parse(ProbeListing[i].name).val) )

\* C2: in is_installed an entry whose name is no version is skipped: the probe
\* does not fail, and it returns true exactly when an entry that parses is a
\* directory the requirement admits.
C2_MalformedNameSkipped ==
    ( /\ pc = "probe_ret"
      /\ Unwrap(probe).root_exists
      /\ Unwrap(probe).read_dir.ok ) =>
        /\ Unwrap(installed).ok
        /\ ( Unwrap(installed).val
             <=> \E i \in 1..Len(ProbeListing) :
                    /\ ProbeListing[i].is_dir
                    /\ Version_parse(ProbeListing[i].name).ok
                    /\ VersionReq_matches(
                          VersionReq_parse(DotnetVersion_to_string(arg.version)).val,
                          Version_parse(ProbeListing[i].name).val) )

\* The URLs find_newest_minor has asked for, in the order of the requests.
NewestMinorUrls ==
    LET own == SelectSeq(fetched, LAMBDA f : f.by = "find_newest_minor")
    IN [i \in 1..Len(own) |-> own[i].url]

\* C3: find_newest_minor asks for the markers of the minors 0, 1, 2, ... in
\* ascending order; at the first candidate k answered 404 it returns k - 1 when
\* k > 0 and fails with "No available versions found" when k = 0.
C3_NewestMinorIsLastBeforeNotFound ==
    pc = "fnm_ret" =>
        LET f == Unwrap(fnm)
            r == Unwrap(f.res)
            n == Len(NewestMinorUrls)
        IN /\ \A i \in 1..n :
                 NewestMinorUrls[i] =
                    LatestVersionUrl(IndexUrl(arg.runtime), arg.version.major, i - 1)
           /\ \A i \in 1..(Len(f.seen) - 1) : f.seen[i] # StatusNotFound
           /\ IF f.seen # <<>> /\ f.seen[Len(f.seen)] = StatusNotFound
              THEN /\ n = Len(f.seen)
                   /\ IF n - 1 > 0
                      THEN r.ok /\ r.val = n - 2
                      ELSE ~r.ok /\ r.err = "No available versions found"
              ELSE ~r.ok /\ r = TransportError /\ n = Len(f.seen) + 1

\* C3, witness: the minors 0, 1, 2 exist, 3 is answered 404, and 2 is returned.
C3_Witness ==
    /\ pc = "fnm_ret"
    /\ Unwrap(fnm).seen = <<StatusOk, StatusOk, StatusOk, StatusNotFound>>
    /\ Unwrap(Unwrap(fnm).res).ok
    /\ Unwrap(Unwrap(fnm).res).val = 2

\* The requests find_best_version and find_newest_minor have made.
SelectorFetches ==
    SelectSeq(fetched,
              LAMBDA f : f.by \in {"find_best_version", "find_newest_minor"})

\* C4: for a request with major, minor and patch, find_best_version returns
\* exactly major.minor.patch and makes no request.
C4_FullRequestReturnedWithoutFetch ==
    ( /\ pc = "fbv_ret"
      /\ IsSome(arg.version.minor)
      /\ IsSome(arg.version.patch) ) =>
        LET r == Unwrap(Unwrap(fbv).res)
        IN /\ r.ok
           /\ r.val.major = arg.version.major
           /\ r.val.minor = Unwrap(arg.version.minor)
           /\ r.val.patch = Unwrap(arg.version.patch)
           /\ r.val.pre = <<>>
           /\ SelectorFetches = <<>>

\* C4, witness: find_best_version has returned 5.1.3 for the request 5.1.3.
C4_Witness ==
    /\ pc = "fbv_ret"
    /\ arg.version = DotnetVersion(5, Some(1), Some(3))
    /\ Unwrap(Unwrap(fbv).res) = Ok(Version_new(5, 1, 3))

\* download_install has returned from the runtime installer's download because
\* of the status of the response.
RuntimeDownloadRefused ==
    /\ IsSome(dl)
    /\ Unwrap(dl).caller = "dotnet"
    /\ Unwrap(dl).exit = Some("status")

\* C5: a 404 of the installer's download fails the run with the error
\* VersionNotFound, any other status but 200 with the distinct error
\* DownloadFailed (which names the product version), and in both cases no
\* installer is launched.
C5_DownloadErrorKinds ==
    RuntimeDownloadRefused =>
        LET d == Unwrap(dl)
            r == Unwrap(d.res)
        IN /\ ~r.ok
           /\ (d.status = Some(StatusNotFound) => r.err = "VersionNotFound")
           /\ (d.status # Some(StatusNotFound) => r.err = "DownloadFailed")
           /\ \A i \in 1..Len(launched) : launched[i].url # d.url

\* C6: the temporary directory of download_install exists only while
\* download_install runs: it is gone once download_install has returned, by
\* whichever exit.
C6_TempDirGoneAfterReturn ==
    pc \notin {"dl_get", "dl_copy"} => ~tmpDir

\* C6, witness: the installer's download was answered 404, download_install
\* has returned, and its directory, which existed, is gone.
C6_Witness ==
    /\ pc = "dl_ret"
    /\ RuntimeDownloadRefused
    /\ Unwrap(dl).status = Some(StatusNotFound)
    /\ ~tmpDir

\* find_best_version has returned after it read a response for the marker.
MarkerAnswered ==
    /\ pc = "fbv_ret"
    /\ IsSome(Unwrap(fbv).response)

\* C7: find_best_version fails when the marker's response has a status other
\* than 200, whatever its body.
C7_NonSuccessMarkerFails ==
    ( /\ MarkerAnswered
      /\ Unwrap(Unwrap(fbv).response).status # StatusOk ) =>
        ~Unwrap(Unwrap(fbv).res).ok

\* C8: a version find_best_version returns for a partial request has the
\* request's major and, when the request gives a minor, the request's minor.
C8_ResolvedAgreesWithRequest ==
    ( /\ pc = "fbv_ret"
      /\ ~(IsSome(arg.version.minor) /\ IsSome(arg.version.patch))
      /\ Unwrap(Unwrap(fbv).res).ok ) =>
        LET v == Unwrap(Unwrap(fbv).res).val
        IN /\ v.major = arg.version.major
           /\ (IsSome(arg.version.minor) => v.minor = Unwrap(arg.version.minor))

\* C9: once is_installed has returned true, the run ends with Ok(()), and
\* nothing but the prerequisite was ever fetched or launched: the version is
\* not resolved, and no runtime installer is downloaded or launched.
C9_InstalledEndsRun ==
    ( IsSome(installed) /\ ProbeReturnedTrue ) =>
        /\ pc \in {"probe_ret", "done"}
        /\ (pc = "done" => result = Some(Ok(Unit)))
        /\ \A i \in 1..Len(fetched) :
              /\ fetched[i].by = "download_install"
              /\ fetched[i].url = VcRedistUrl(arg.arch)
        /\ \A i \in 1..Len(launched) : launched[i].url = VcRedistUrl(arg.arch)
        /\ (IsSome(dl) => Unwrap(dl).caller = "vcruntime")
        /\ ~tmpDir
        /\ fnm = None /\ fbv = None /\ fpv = None
        /\ version = None /\ product_version = None

\* C9, witness: the run has ended with Ok(()) after is_installed returned true.
C9_Witness ==
    /\ pc = "done"
    /\ IsSome(installed)
    /\ ProbeReturnedTrue
    /\ result = Some(Ok(Unit))

\* t is s without its leading and its trailing whitespace.
IsTrimmed(t, s) ==
    /\ (t # <<>> => ~IsWhitespace(t[1]) /\ ~IsWhitespace(t[Len(t)]))
    /\ \E a \in 0..Len(s) :
          /\ a + Len(t) <= Len(s)
          /\ SubSeq(s, a + 1, a + Len(t)) = t
          /\ \A i \in 1..a : IsWhitespace(s[i])
          /\ \A i \in (a + Len(t) + 1)..Len(s) : IsWhitespace(s[i])

\* C10: find_product_version returns the trimmed body of a response of status
\* 200, and for any other status it returns, as a success, the text of the
\* resolved version, which reads back as that version.
C10_ProductVersionOrFallback ==
    ( /\ pc = "fpv_ret"
      /\ IsSome(Unwrap(fpv).response) ) =>
        LET response == Unwrap(Unwrap(fpv).response)
            r == Unwrap(fpv).res
        IN IF response.status = StatusOk
           THEN IsSome(response.body) =>
                   r.ok /\ IsTrimmed(r.val, Unwrap(response.body))
           ELSE /\ r.ok
                /\ Version_parse(r.val).ok
                /\ Version_parse(r.val).val = Unwrap(version)

\* C10, witness: the product version resource was answered 404 and
\* find_product_version has returned the text 5.1.7 of the version 5.1.7.
C10_Witness ==
    /\ pc = "fpv_ret"
    /\ IsSome(Unwrap(fpv).response)
    /\ Unwrap(Unwrap(fpv).response).status = StatusNotFound
    /\ version = Some(Version_new(5, 1, 7))
    /\ Unwrap(fpv).res = Ok(<<"5", ".", "1", ".", "7">>)

\* The run has ended.
Ended == pc = "done"

\* An installer of the runtime, not of the prerequisite, was launched.
RuntimeInstallerLaunched ==
    \E i \in 1..Len(launched) : launched[i].url # VcRedistUrl(arg.arch)

\* C11, as claimed: a run that ends in failure has launched no installer
\* process of any kind.
C11_FailedRunLaunchedNothing ==
    ( Ended /\ ~Unwrap(result).ok ) => launched = <<>>

\* C11, amended: a run ends with is_installed having returned true, or with the
\* runtime's installer downloaded and launched, or in a failure before any
\* installer of the runtime was launched; the one installer a failed run may
\* have launched is the prerequisite's, which main installs first.  No
\* temporary directory is left.
C11_NoPartialSuccess ==
    Ended =>
        /\ ~tmpDir
        /\ IF Unwrap(result).ok
           THEN \/ IsSome(installed) /\ ProbeReturnedTrue /\ ~RuntimeInstallerLaunched
                \/ /\ IsSome(installed) /\ ~ProbeReturnedTrue
                   /\ IsSome(version) /\ IsSome(product_version)
                   /\ launched # <<>>
                   /\ launched[Len(launched)].url =
                         download_url(arg.arch, arg.runtime, Unwrap(version),
                                      Unwrap(product_version))
                   /\ fetched[Len(fetched)].url = launched[Len(launched)].url
           ELSE /\ ~RuntimeInstallerLaunched
                /\ Len(launched) <= 1

\* C11, witness: a run has failed after it launched the prerequisite's
\* installer, at a transport failure of find_product_version.
C11_Witness ==
    /\ Ended
    /\ ~Unwrap(result).ok
    /\ Len(launched) = 1
    /\ launched[1].url = VcRedistUrl(arg.arch)
    /\ fetched[Len(fetched)].by = "find_product_version"

\* C12, as claimed: no URL is requested more than once in a run.
C12_NoUrlRequestedTwice ==
    \A i, j \in 1..Len(fetched) :
        i # j => fetched[i].url # fetched[j].url

\* C12, amended: no function repeats a request, whatever its outcome; the one
\* URL requested twice in a run is the marker of the minor find_newest_minor
\* chose, once by find_newest_minor and then once by find_best_version.
C12_OnlyChosenMarkerRequestedTwice ==
    \A i, j \in 1..Len(fetched) :
        ( i < j /\ fetched[i].url = fetched[j].url ) =>
            /\ fetched[i].by = "find_newest_minor"
            /\ fetched[j].by = "find_best_version"
            /\ ~IsSome(arg.version.minor)
            \* i is the last request of find_newest_minor but one, j follows the last
            /\ j = i + 2
            /\ fetched[i + 1].by = "find_newest_minor"
            /\ \A k \in 1..Len(fetched) :
                  fetched[k].url = fetched[i].url => k \in {i, j}

\* C12, witness: find_best_version has requested the marker of minor 1, which
\* find_newest_minor had requested before.
C12_Witness ==
    /\ pc = "fbv_ret"
    /\ Len(fetched) >= 4
    /\ fetched[Len(fetched)].by = "find_best_version"
    /\ fetched[Len(fetched)].url = fetched[Len(fetched) - 2].url
    /\ fetched[Len(fetched) - 2].by = "find_newest_minor"
    /\ Unwrap(fbv).minor = Some(1)

\* The lines of a text that are not empty, in order.
NonEmptyLines(text) ==
    SelectSeq(Split(text, "\n"), LAMBDA l : l # <<>> /\ l # <<"\r">>)

\* C13: find_best_version takes the version from the last line of the marker
\* that is not empty: empty lines at the end do not make it fail.
C13_LastNonEmptyLineParsed ==
    ( /\ MarkerAnswered
      /\ IsSome(Unwrap(Unwrap(fbv).response).body)
      /\ NonEmptyLines(Unwrap(Unwrap(Unwrap(fbv).response).body)) # <<>> ) =>
        LET ls == NonEmptyLines(Unwrap(Unwrap(Unwrap(fbv).response).body))
            want == Version_parse(ls[Len(ls)])
            r == Unwrap(Unwrap(fbv).res)
        IN /\ r.ok = want.ok
           /\ (r.ok => r.val = want.val)

\* C14: is_installed returns false, and no error, when the install root of the
\* architecture does not exist, and it lists no directory: the root is the last
\* path it looked at.
C14_MissingRootIsFalse ==
    ( pc = "probe_ret" /\ ~Unwrap(probe).root_exists ) =>
        /\ Unwrap(installed).ok
        /\ ~Unwrap(installed).val
        /\ fsReads[Len(fsReads)] =
              << IF arg.arch = "X86" /\ (env.w6432 \/ env.x86_64)
                 THEN "C:\\Program Files (x86)\\dotnet"
                 ELSE "C:\\Program Files\\dotnet" >>

\* C14, witness: is_installed has returned false for a missing install root.
C14_Witness ==
    /\ pc = "probe_ret"
    /\ ~Unwrap(probe).root_exists
    /\ installed = Some(Ok(FALSE))

\* download_install has launched the installer and waited for it.
InstallerWaitedFor ==
    /\ IsSome(dl)
    /\ Unwrap(dl).exit = Some("launched")

\* C15: what download_install returns after the installer was launched and
\* waited for is Ok(()) for every exit code of the installer, and so is main's
\* result after the runtime's installer: two runs that differ in the exit code
\* alone end alike.
C15_ResultIgnoresExitCode ==
    InstallerWaitedFor =>
        /\ launched # <<>>
        /\ launched[Len(launched)].url = Unwrap(dl).url
        /\ Unwrap(Unwrap(dl).res) = Ok(Unit)
        /\ (Ended => Unwrap(dl).caller = "dotnet" /\ result = Some(Ok(Unit)))

\* C15, witness: the runtime's installer exited with code 1 and the run has
\* ended with Ok(()).
C15_Witness ==
    /\ Ended
    /\ InstallerWaitedFor
    /\ Unwrap(dl).caller = "dotnet"
    /\ launched[Len(launched)].exit = 1
    /\ result = Some(Ok(Unit))

\* x64 was asked for and the system is not 64-bit.
X64OnThirtyTwoBit ==
    arg.arch = "X64" /\ ~env.w6432 /\ ~env.x86_64

\* C16: x64 on a 32-bit system fails the run with the configuration error
\* before any request, any look at the file system, any temporary directory
\* and any launch.
C16_X64On32BitFailsFirst ==
    X64OnThirtyTwoBit =>
        /\ pc \in {"start", "done"}
        /\ (Ended =>
              result = Some(Err("Cannot install 64-bit dotnet on 32-bit windows")))
        /\ fetched = <<>>
        /\ fsReads = <<>>
        /\ launched = <<>>
        /\ ~tmpDir
        /\ vcruntime = None /\ dl = None /\ installed = None

\* C16, witness: the run has ended for x64 on a 32-bit system.
C16_Witness ==
    /\ X64OnThirtyTwoBit
    /\ Ended
    /\ ~Unwrap(result).ok

\* main is past the prerequisite: is_installed is about to run or has run.
PastPrerequisite ==
    \/ pc \in {"probe", "probe_ret", "fbv", "fnm", "fnm_ret", "fbv_latest",
               "fbv_ret", "fpv", "fpv_ret"}
    \/ IsSome(installed)
    \/ Len(fsReads) > 1
    \/ \E i \in 1..Len(fetched) : fetched[i].url # VcRedistUrl(arg.arch)

\* C17: when the prerequisite is absent its installer is downloaded, launched
\* and waited for before is_installed runs and before anything else is
\* requested; when its download fails the run fails with is_installed never
\* run; when the prerequisite is present it is not downloaded.
C17_PrerequisiteFirst ==
    /\ ( vcruntime = Some(FALSE) /\ PastPrerequisite ) =>
          /\ fetched # <<>>
          /\ fetched[1] = [by |-> "download_install", url |-> VcRedistUrl(arg.arch)]
          /\ launched # <<>>
          /\ launched[1].url = VcRedistUrl(arg.arch)
          /\ fsReads[1] = <<VcRuntimePath(arg.arch, env)>>
    /\ ( /\ vcruntime = Some(FALSE)
         /\ \A i \in 1..Len(launched) : launched[i].url # VcRedistUrl(arg.arch)
         /\ pc \notin {"dl_begin", "dl_get", "dl_copy"} ) =>
          /\ pc \in {"dl_ret", "done"}
          /\ ~Unwrap(Unwrap(dl).res).ok
          /\ (Ended => ~Unwrap(result).ok)
          /\ installed = None
          /\ Len(fsReads) = 1
          /\ Len(fetched) <= 1
          /\ launched = <<>>
    /\ vcruntime = Some(TRUE) =>
          /\ \A i \in 1..Len(fetched) : fetched[i].url # VcRedistUrl(arg.arch)
          /\ \A i \in 1..Len(launched) : launched[i].url # VcRedistUrl(arg.arch)

\* C17, witness: the prerequisite was absent, its installer was launched, and
\* is_installed has run after it.
C17_Witness ==
    /\ vcruntime = Some(FALSE)
    /\ pc = "probe_ret"
    /\ Len(launched) = 1
    /\ launched[1].url = VcRedistUrl(arg.arch)

\* C18: find_newest_minor returns exactly when a candidate is answered 404 or
\* a request fails in transport: after any other status, 200 or not, the scan
\* goes on with the next candidate.  At its return after a 404 at candidate k
\* it has made k + 1 requests, for the minors 0 .. k, one after another.
C18_ScanEndsOnlyOnNotFound ==
    IsSome(fnm) =>
        LET f == Unwrap(fnm)
            n == Len(NewestMinorUrls)
            own == {i \in 1..Len(fetched) : fetched[i].by = "find_newest_minor"}
        IN /\ \A i \in 1..(Len(f.seen) - 1) : f.seen[i] # StatusNotFound
           \* the requests of the scan are consecutive: nothing is requested between
           /\ \A i, j \in own : \A k \in i..j : k \in own
           /\ pc \in {"fnm", "fnm_ret"}
           /\ pc = "fnm" =>
                 /\ ~IsSome(f.res)
                 /\ n = Len(f.seen)
                 /\ f.minor = n
                 /\ (f.seen # <<>> => f.seen[Len(f.seen)] # StatusNotFound)
           /\ pc = "fnm_ret" =>
                 /\ IsSome(f.res)
                 /\ \/ /\ f.seen # <<>>
                       /\ f.seen[Len(f.seen)] = StatusNotFound
                       /\ n = Len(f.seen)
                       /\ f.minor = n - 1
                    \/ /\ ~Unwrap(f.res).ok
                       /\ Unwrap(f.res) = TransportError
                       /\ (f.seen # <<>> => f.seen[Len(f.seen)] # StatusNotFound)
                       /\ n = Len(f.seen) + 1

\* C18, witness: the scan goes on after a response of status 500 and one of
\* status 200.
C18_Witness ==
    /\ pc = "fnm"
    /\ Unwrap(fnm).seen = <<"InternalServerError", StatusOk>>
    /\ Unwrap(fnm).minor = 2

\* C19: is_installed returns false, and no error, when the install root exists
\* and the runtime's directory under it does not; main then goes on to resolve
\* the version.
C19_MissingRuntimeDirIsFalse ==
    ( /\ pc = "probe_ret"
      /\ Unwrap(probe).root_exists
      /\ ~Unwrap(probe).read_dir.ok ) =>
        /\ Unwrap(installed).ok
        /\ ~Unwrap(installed).val

\* C20: the unreachable!() arm of get_root_install is never reached.
C20_RootInstallArmUnreachable ==
    /\ pc # "panic"
    /\ pc \notin {"start", "done"} => ~X64OnThirtyTwoBit
    /\ \A i \in 1..Len(fsReads) :
          fsReads[i][1] # "unreachable"

\* C20, witness: get_root_install has answered for x64 on a 64-bit system.
C20_Witness ==
    /\ pc = "probe_ret"
    /\ arg.arch = "X64"
    /\ env.x86_64
    /\ fsReads[Len(fsReads)][1] = "C:\\Program Files\\dotnet"

=============================================================================
